---- MODULE Spec2Model ----
(***************************************************************************)
(* Model of the parallel worker engine of components/CreativeStudio.tsx    *)
(* (src/unnamed/part_001): the task queue, the pool of Web Workers, the    *)
(* result aggregation, the sequential fallback and stop/reset.             *)
(*                                                                         *)
(* Execution model.  The component runs under React 18 createRoot          *)
(* (src/App.tsx:2), so the state updates a handler queues are batched and  *)
(* flushed in one render right after the handler returns, before any       *)
(* other event is handled: one action of the model is one handler          *)
(* together with that render.  In the render the updater functions run     *)
(* hook by hook in declaration order (running, completed, results; lines   *)
(* 48-50), each hook's updaters in the order they were queued.  The first  *)
(* setState of a handler may also run its updater eagerly, inside the      *)
(* call (React does so when the component has no pending update); both     *)
(* outcomes are modelled, see OnMessage.  The root is not in StrictMode     *)
(* (src/App.tsx:110): an updater runs once.                                *)
(*                                                                         *)
(* Environment.  A unit (Web Worker) holding a task answers with one       *)
(* message {id, result} or {id, error}, or raises an error event.  After   *)
(* terminate() no message of the unit is delivered any more (HTML          *)
(* standard, "terminate a worker": the port message queue is emptied), but *)
(* an error event of its outstanding task may still be reported.           *)
(* postMessage throws exactly when the payload cannot be cloned, which is  *)
(* a property of the task; on a terminated unit it is otherwise silently   *)
(* ignored.  The units of the current pool are named by their index in     *)
(* workersRef.current.  The handlers of a terminated unit do the same      *)
(* whichever unit it is (they only pass it to assignNextTaskToWorker,      *)
(* whose postMessage and terminate it ignores), so the terminated units    *)
(* with an outstanding task are counted, not named.                        *)
(***************************************************************************)
EXTENDS Integers, Sequences, FiniteSets, TLC

\* ---- bounds of the model ----
MaxTasks == 2
MaxConc == 2
\* units with an outstanding task, live or terminated, at any one time
MaxUnits == 3

None == 0

Min(a, b) == IF a < b THEN a ELSE b
Max(a, b) == IF a > b THEN a ELSE b
Range(f) == {f[i] : i \in DOMAIN f}

VARIABLES
  tasks,        \* tasksRef.current: the task list (ids; distinct)
  concurrency,  \* the concurrency prop
  hasWorker,    \* typeof Worker !== "undefined"
  uncloneable,  \* ids of the tasks whose payload postMessage cannot clone
  queue,        \* queueRef.current
  results,      \* the results state
  completed,    \* the completed state
  running,      \* the running state
  stopped,      \* stoppedRef.current
  workers,      \* workersRef.current
  created,      \* number of Worker objects created by the last start
  alive,        \* units of the pool not yet terminated
  inflight,     \* per unit of the pool: the tasks it was sent and has not answered
  stale,        \* number of terminated units with an outstanding task
  timers,       \* pending setTimeout(() => onComplete(next), 0) callbacks
  log,          \* callback invocations observed since the last start or reset
  started,      \* startEngine has begun a run
  runComplete,  \* the run ended by itself (auto-stop or end of the fallback), no reset since
  scriptLive,   \* an object URL made by createWorkerScript has not been revoked
  lastOp        \* the operation of the last step

vars == <<tasks, concurrency, hasWorker, uncloneable, queue, results, completed,
          running, stopped, workers, created, alive, inflight, stale,
          timers, log, started, runComplete, scriptLive, lastOp>>

Units == 1..MaxConc

\* The mutable state the engine's functions read and write, as one record.
St ==
  [queue |-> queue, results |-> results, completed |-> completed,
   running |-> running, stopped |-> stopped, workers |-> workers,
   created |-> created, alive |-> alive, inflight |-> inflight,
   stale |-> stale, timers |-> timers, log |-> log, started |-> started,
   runComplete |-> runComplete, scriptLive |-> scriptLive]

Total == Len(tasks)

\* ---- results and callbacks ----
OkResult(t) == [id |-> t, result |-> TRUE, error |-> FALSE]
ErrResult(t) == [id |-> t, result |-> FALSE, error |-> TRUE]

\* cur: the call belongs to the run started last
ProgressCall(n, total) ==
  [op |-> "progress", cur |-> TRUE, n |-> n, total |-> total, res |-> <<>>]
CompleteCall(cur, res) ==
  [op |-> "complete", cur |-> cur, n |-> Len(res), total |-> 0, res |-> res]

RECURSIVE Outstanding(_, _)
\* how many tasks the units ws hold
Outstanding(s, ws) ==
  IF ws = <<>> THEN 0
  ELSE Cardinality(s.inflight[Head(ws)]) + Outstanding(s, Tail(ws))

\* stopEngine without the clearing of workersRef.current (line 230)
StopEngineKeepingSlots(s) ==
  [s EXCEPT !.stopped = TRUE,
            !.alive = @ \ Range(s.workers),
            !.stale = @ + Outstanding(s, s.workers),
            !.inflight = [u \in Units |-> IF u \in Range(s.workers) THEN {} ELSE @[u]],
            !.running = FALSE]

\* stopEngine (lines 221-232)
StopEngine(s) ==
  [s EXCEPT !.stopped = TRUE,
            !.alive = @ \ Range(s.workers),
            !.stale = @ + Outstanding(s, s.workers),
            !.inflight = [u \in Units |-> IF u \in Range(s.workers) THEN {} ELSE @[u]],
            !.workers = <<>>,
            !.running = FALSE]

\* the updater below without its auto-stop (line 138)
CompletedUpdaterNoStop(s) ==
  [s EXCEPT !.completed = @ + 1,
            !.log = Append(@, ProgressCall(s.completed + 1, Total))]

\* The updater of setCompleted in onmessage (lines 133-141) and in the
\* dispatch-failure branch (lines 176-181): count, report, auto-stop.
CompletedUpdater(s) ==
  LET n == s.completed + 1
      s1 == [s EXCEPT !.completed = n,
                      !.log = Append(@, ProgressCall(n, Total))]
  IN IF n >= Total THEN [StopEngine(s1) EXCEPT !.runComplete = TRUE] ELSE s1

RECURSIVE Repeat(_, _)
\* k queued completed-updaters of the kind above, run in order
Repeat(s, k) == IF k = 0 THEN s ELSE Repeat(CompletedUpdater(s), k - 1)

\* The updater of setCompleted in onerror (line 148)
FaultUpdater(s) == [s EXCEPT !.completed = @ + 1]

RECURSIVE AppendErrors(_, _)
\* the updaters of setResults of the dispatch-failure branch (line 175)
AppendErrors(res, failed) ==
  IF failed = <<>> THEN res
  ELSE AppendErrors(Append(res, ErrResult(Head(failed))), Tail(failed))

RECURSIVE AssignIgnoringStopped(_, _, _)
\* assignNextTaskToWorker without the test of line 159
AssignIgnoringStopped(s, w, failed) ==
  IF s.queue = <<>>
    THEN [s |-> [s EXCEPT !.alive = @ \ {w}], failed |-> failed]
    ELSE LET t == Head(s.queue)
             s1 == [s EXCEPT !.queue = Tail(@)]
         IN IF t \in uncloneable
              THEN AssignIgnoringStopped(s1, w, Append(failed, t))
              ELSE [s |-> IF w \in s1.alive
                            THEN [s1 EXCEPT !.inflight[w] = @ \cup {t}]
                            ELSE s1,
                    failed |-> failed]

RECURSIVE AssignNextTaskToWorker(_, _, _)
\* assignNextTaskToWorker (lines 158-184), its synchronous part: the state
\* after it and the tasks whose dispatch failed, whose updaters (lines
\* 175-181) run in the next render.
AssignNextTaskToWorker(s, w, failed) ==
  IF s.stopped THEN [s |-> s, failed |-> failed]
  ELSE IF s.queue = <<>>
    THEN [s |-> [s EXCEPT !.alive = @ \ {w}], failed |-> failed]
    ELSE LET t == Head(s.queue)
             s1 == [s EXCEPT !.queue = Tail(@)]
         IN IF t \in uncloneable
              THEN AssignNextTaskToWorker(s1, w, Append(failed, t))
              ELSE [s |-> IF w \in s1.alive
                            THEN [s1 EXCEPT !.inflight[w] = @ \cup {t}]
                            ELSE s1,
                    failed |-> failed]

RECURSIVE AssignAllTwice(_, _, _)
\* the kick-off loop handing every unit two tasks
AssignAllTwice(s, ws, failed) ==
  IF ws = <<>> THEN [s |-> s, failed |-> failed]
  ELSE LET a == AssignNextTaskToWorker(s, Head(ws), failed)
           b == AssignNextTaskToWorker(a.s, Head(ws), a.failed)
       IN AssignAllTwice(b.s, Tail(ws), b.failed)

RECURSIVE AssignAll(_, _, _)
\* the kick-off loop of startEngine (line 155)
AssignAll(s, ws, failed) ==
  IF ws = <<>> THEN [s |-> s, failed |-> failed]
  ELSE LET a == AssignNextTaskToWorker(s, Head(ws), failed)
       IN AssignAll(a.s, Tail(ws), a.failed)

\* The render after a handler: the completed hook's updaters, then the
\* results hook's (next is the results state after the handler's own update).
Render(s, nCompleted, next, failed) ==
  [Repeat(s, nCompleted) EXCEPT !.results = AppendErrors(next, failed)]

RECURSIVE SimulateAll(_)
\* the loop body of runSequentiallyOnMainThread (lines 202-209): runSimulated
\* does not throw, every task yields a result
SimulateAll(q) ==
  IF q = <<>> THEN <<>> ELSE <<OkResult(Head(q))>> \o SimulateAll(Tail(q))

RECURSIVE ProgressCalls(_, _, _)
\* the updaters queued by the fallback loop (lines 210-214), run in the render
ProgressCalls(from, k, total) ==
  IF k = 0 THEN <<>>
  ELSE <<ProgressCall(from + 1, total)>> \o ProgressCalls(from + 1, k - 1, total)

\* runSequentiallyOnMainThread (lines 186-219).  It has no await: it runs to
\* its end inside startEngine.  onComplete is called inline (line 218), the
\* progress updaters run in the render that follows.
RunSequentiallyOnMainThread(s) ==
  LET total == Len(s.queue)
      n == IF s.stopped THEN 0 ELSE total
      collected == SimulateAll(SubSeq(s.queue, 1, n))
  IN [s EXCEPT !.queue = SubSeq(@, n + 1, total),
               !.results = collected,
               !.running = FALSE,
               !.runComplete = TRUE,
               !.completed = @ + n,
               !.log = (@ \o <<CompleteCall(TRUE, collected)>>)
                         \o ProgressCalls(s.completed, n, total)]

\* createWorkerScript (lines 96-101): a new object URL for the script blob.
\* No statement of the file revokes an object URL, so one stays live.
CreateWorkerScript(s) == [s EXCEPT !.scriptLive = TRUE]

\* the Worker objects created by the loop of startEngine (lines 121-152)
NewWorkers(k) == [i \in 1..k |-> i]

\* startEngine past its guard (lines 105-156): the reset of the run state,
\* then the fallback or the pool and its first assignments
BeginRun(s) ==
  LET s0 == [s EXCEPT !.stopped = FALSE, !.queue = tasks, !.results = <<>>,
                      !.completed = 0, !.running = TRUE,
                      !.started = TRUE, !.log = <<>>, !.runComplete = FALSE,
                      !.created = 0,
                      !.timers = [i \in DOMAIN @ |-> [@[i] EXCEPT !.cur = FALSE]]]
  IN IF ~hasWorker THEN RunSequentiallyOnMainThread(s0)
     ELSE
       LET actualConcurrency == Min(concurrency, Max(1, Len(s0.queue)))
           ws == NewWorkers(actualConcurrency)
           s1 == [CreateWorkerScript(s0) EXCEPT !.workers = ws,
                                            !.created = actualConcurrency,
                                            !.alive = Range(ws)]
           a == AssignAll(s1, ws, <<>>)
       IN Render(a.s, Len(a.failed), <<>>, a.failed)

\* startEngine without the guard of line 104
StartEngineUnguarded(s) == BeginRun(s)

\* startEngine (lines 103-156)
StartEngine(s) == IF s.running THEN s ELSE BeginRun(s)

\* the updater below calling onComplete(next) itself instead of passing it
\* to setTimeout (line 129)
ResultsUpdaterInline(s, qs, next) ==
  IF qs = <<>> /\ Len(next) = Total
    THEN [s EXCEPT !.log = Append(@, CompleteCall(TRUE, next))]
    ELSE s

\* the updater below without the length test of line 127
ResultsUpdaterAnyLength(s, qs, next) ==
  IF qs = <<>>
    THEN [s EXCEPT !.timers = Append(@, [cur |-> TRUE, res |-> next])]
    ELSE s

\* The updater of setResults in onmessage (lines 125-132): the state with the
\* deferred onComplete scheduled when qs, the queue it reads, is empty and the
\* new result is the last one.
ResultsUpdater(s, qs, next) ==
  IF qs = <<>> /\ Len(next) = Total
    THEN [s EXCEPT !.timers = Append(@, [cur |-> TRUE, res |-> next])]
    ELSE s

\* worker.onmessage (lines 123-144) of unit w for the message msg, its answer
\* to the task msg.id.  eager: the results updater runs inside setResults,
\* before assignNextTaskToWorker; otherwise in the render, after it.
OnMessage(s, w, msg, eager) ==
  LET s1 == [s EXCEPT !.inflight[w] = @ \ {msg.id}]
      next == Append(s.results, msg)
      a == AssignNextTaskToWorker(s1, w, <<>>)
      s2 == Render(a.s, 1 + Len(a.failed), next, a.failed)
  IN ResultsUpdater(s2, IF eager THEN s1.queue ELSE a.s.queue, next)

\* worker.onerror (lines 145-150) of unit w, which fails on its task t;
\* w = None: of a terminated unit
OnError(s, w, t) ==
  LET s1 == FaultUpdater(IF w = None THEN [s EXCEPT !.stale = @ - 1]
                                     ELSE [s EXCEPT !.inflight[w] = @ \ {t}])
      a == AssignNextTaskToWorker(s1, w, <<>>)
  IN Render(a.s, Len(a.failed), a.s.results, a.failed)

\* the Reset button (lines 253-259)
ResetClick(s) ==
  [StopEngine(s) EXCEPT !.queue = tasks, !.results = <<>>, !.completed = 0,
                        !.log = <<>>, !.runComplete = FALSE]

\* the deferred callback of line 129
FireTimer(s) ==
  [s EXCEPT !.timers = Tail(@),
            !.log = Append(@, CompleteCall(Head(s.timers).cur, Head(s.timers).res))]

\* ---- the state machine ----
TaskLists == {[i \in 1..n |-> i] : n \in 0..MaxTasks}

Init ==
  /\ tasks \in TaskLists
  /\ concurrency \in 1..MaxConc
  /\ hasWorker \in BOOLEAN
  /\ uncloneable \in SUBSET Range(tasks)
  /\ queue = tasks
  /\ results = <<>>
  /\ completed = 0
  /\ running = FALSE
  /\ stopped = FALSE
  /\ workers = <<>>
  /\ created = 0
  /\ alive = {}
  /\ inflight = [u \in Units |-> {}]
  /\ stale = 0
  /\ timers = <<>>
  /\ log = <<>>
  /\ started = FALSE
  /\ runComplete = FALSE
  /\ scriptLive = FALSE
  /\ lastOp = "init"

\* the state after a handler and the render that follows it
Becomes(s) ==
  /\ queue' = s.queue
  /\ results' = s.results
  /\ completed' = s.completed
  /\ running' = s.running
  /\ stopped' = s.stopped
  /\ workers' = s.workers
  /\ created' = s.created
  /\ alive' = s.alive
  /\ inflight' = s.inflight
  /\ stale' = s.stale
  /\ timers' = s.timers
  /\ log' = s.log
  /\ started' = s.started
  /\ runComplete' = s.runComplete
  /\ scriptLive' = s.scriptLive
  /\ UNCHANGED <<tasks, concurrency, hasWorker, uncloneable>>

\* A start that begins a run is taken only while the units it leaves the
\* model to track stay within MaxUnits and no callback of an earlier run
\* than the last one is still pending.
Start ==
  /\ running \/ (/\ stale + Min(concurrency, Max(1, Len(tasks))) <= MaxUnits
                 /\ \A i \in DOMAIN timers : timers[i].cur)
  /\ Becomes(StartEngine(St))
  /\ lastOp' = "start"

Message ==
  \E w \in alive, ok \in BOOLEAN, eager \in BOOLEAN :
    \E t \in inflight[w] :
      /\ Becomes(OnMessage(St, w, IF ok THEN OkResult(t) ELSE ErrResult(t), eager))
      /\ lastOp' = "message"

Fault ==
  \E w \in alive :
    \E t \in inflight[w] :
      /\ Becomes(OnError(St, w, t))
      /\ lastOp' = "fault"

LateFault ==
  /\ stale > 0
  /\ Becomes(OnError(St, None, None))
  /\ lastOp' = "lateFault"

Stop ==
  /\ Becomes(StopEngine(St))
  /\ lastOp' = "stop"

Reset ==
  /\ Becomes(ResetClick(St))
  /\ lastOp' = "reset"

Timeout ==
  /\ timers # <<>>
  /\ Becomes(FireTimer(St))
  /\ lastOp' = "timeout"

Next == Start \/ Message \/ Fault \/ LateFault \/ Stop \/ Reset \/ Timeout

Spec == Init /\ [][Next]_vars

\* ---- the engine under changing props ----
\* The effect of lines 56-60, run when the parent passes another tasks array
\* (one of other content or a new array of the same content): tasksRef and
\* the queue are re-seeded, whatever the engine is doing.  The step is taken
\* while nothing has completed, which keeps the count and the results of a
\* re-seeded run within MaxTasks + MaxConc.
SetTasks ==
  /\ completed = 0 /\ results = <<>> /\ timers = <<>>
  /\ \E ts \in TaskLists : tasks' = ts /\ queue' = ts
  /\ UNCHANGED <<concurrency, hasWorker, uncloneable, results, completed,
                 running, stopped, workers, created, alive, inflight, stale,
                 timers, log, started, runComplete, scriptLive>>
  /\ lastOp' = "setTasks"

\* The Result onmessage records (line 126) for a message whose error field is
\* err and whose result field is present or not: result is copied, error is
\* kept as a string only when it is truthy.
RecordedResult(id, hasResult, err) ==
  [id |-> id, result |-> hasResult, error |-> (err \notin {"absent", "empty"})]

\* A unit running a script passed as workerFunctionBody answers its task
\* with {id, error: ""}, the message of a script that reports String(err)
\* for a thrown empty string.
EmptyErrorMessage ==
  \E w \in alive, eager \in BOOLEAN :
    \E t \in inflight[w] :
      /\ Becomes(OnMessage(St, w, RecordedResult(t, FALSE, "empty"), eager))
      /\ lastOp' = "emptyError"

NextProps == Next \/ SetTasks \/ EmptyErrorMessage

SpecProps == Init /\ [][NextProps]_vars

\* ---- the claims ----
IsProgress(e) == e.op = "progress"
Progress == SelectSeq(log, IsProgress)
\* invocations of onComplete logged, and still pending, for the last run
\* (c = TRUE) or the one before (c = FALSE)
CompleteCalls(c) ==
  Cardinality({i \in DOMAIN log : log[i].op = "complete" /\ log[i].cur = c})
PendingTimers(c) == Cardinality({i \in DOMAIN timers : timers[i].cur = c})
ResultIds == {results[i].id : i \in DOMAIN results}
NothingInFlight == stale = 0 /\ \A u \in Units : inflight[u] = {}

\* C1: per run onComplete is scheduled or invoked at most once, and every
\* invocation passes as many results as the task list has tasks.
C1_OnCompleteAtMostOnce ==
  /\ \A c \in BOOLEAN : CompleteCalls(c) + PendingTimers(c) <= 1
  /\ \A i \in DOMAIN log : log[i].op = "complete" => Len(log[i].res) = Total
  /\ \A i \in DOMAIN timers : Len(timers[i].res) = Total

\* onComplete was invoked for a worker-path run of two tasks, one of which
\* failed at dispatch
C1_Witness ==
  /\ hasWorker /\ Total = 2 /\ uncloneable # {}
  /\ \E i \in DOMAIN log : log[i].op = "complete" /\ log[i].cur

\* C2: when a run has completed (the pool auto-stopped on the full count, or
\* the fallback returned) the recorded results are exactly one per input id.
C2_ResultsBijection ==
  runComplete => Len(results) = Total /\ ResultIds = Range(tasks)

\* C3: every completion counted is reported by onProgress, and the i-th
\* report of a run is (i, T).
C3_ProgressCountsEveryCompletion ==
  /\ Len(Progress) = completed
  /\ \A i \in DOMAIN Progress : Progress[i].n = i /\ Progress[i].total = Total

\* C4: in the worker path, a run whose count reached the total (auto-stop)
\* is stopped and has onComplete scheduled or invoked with all results.
C4_AutoStopImpliesOnComplete ==
  (hasWorker /\ runComplete) =>
    /\ stopped /\ ~running
    /\ CompleteCalls(TRUE) + PendingTimers(TRUE) >= 1

\* C5: between handlers completedCount equals the number of recorded results.
C5_CompletedEqualsResults == completed = Len(results)

\* C6: a run started with no task creates no unit and has invoked
\* onComplete([]) when start returns.
C6_EmptyRun ==
  (lastOp = "start" /\ Total = 0) =>
    /\ created = 0
    /\ \E i \in DOMAIN log : log[i].op = "complete" /\ log[i].res = <<>>

\* C7: a run of at least one task never stays Running with an empty queue
\* and no task in flight.
C7_NeverRunningWithNothingToDo ==
  ~(running /\ Total > 0 /\ queue = <<>> /\ NothingInFlight)

\* C8: once stopped, the engine is not running, has no slot and no live unit,
\* and until the next start no step dequeues a task or hands one to a unit.
C8_NoDispatchAfterStop ==
  /\ [](stopped => ~running /\ workers = <<>> /\ alive = {})
  /\ [][(stopped /\ lastOp' # "start") =>
          /\ queue' = queue \/ (lastOp' = "reset" /\ queue' = tasks)
          /\ inflight' = inflight
          /\ stale' <= stale]_vars

\* the fault of a unit terminated by stop() was handled while stopped, with
\* tasks still queued
C8_Witness ==
  /\ lastOp = "lateFault" /\ stopped /\ completed > 0
  /\ queue # <<>> /\ Len(queue) < Total

\* C9: an event of a unit of the stopped run, handled during the next run,
\* leaves that run's queue, count and results as they were.
C9_StoppedRunDoesNotAlterNextRun ==
  [][(lastOp' = "lateFault" /\ ~stopped) =>
       queue' = queue /\ completed' = completed /\ results' = results]_vars

\* C10: start() while Running changes nothing of the run and creates no unit.
C10_StartWhileRunningIsNoOp ==
  [][(lastOp' = "start" /\ running) =>
       UNCHANGED <<queue, results, completed, running, stopped, workers,
                   created, alive, inflight, stale, timers, log,
                   scriptLive>>]_vars

\* start() was called during a run in which a unit has already answered
C10_Witness ==
  /\ lastOp = "start" /\ running
  /\ \E i \in DOMAIN results : results[i].result

\* C11: a fallback run records one result per task in input order, reports
\* onProgress (1,T), ..., (T,T) in that order and then, at the end, invokes
\* onComplete once with all T results.
C11_FallbackRun ==
  (~hasWorker /\ lastOp = "start") =>
    /\ results = SimulateAll(tasks)
    /\ log = ProgressCalls(0, Total, Total)
               \o <<CompleteCall(TRUE, SimulateAll(tasks))>>

\* tasks handed to a unit, live or terminated, and not answered
TasksInFlight == stale + Outstanding(St, [i \in Units |-> i])

\* C12: stop() leaves the engine stopped with no slot and no live unit, and
\* on an engine already stopped it changes nothing; a stop made from inside a
\* completion handler (auto-stop) leaves the same state, and that handler
\* hands no task to a unit.
C12_StopIdempotentReentrant ==
  /\ [](StopEngine(StopEngine(St)) = StopEngine(St))
  /\ [][lastOp' = "stop" =>
          /\ stopped' /\ ~running' /\ workers' = <<>> /\ alive' = {}
          /\ stopped =>
                UNCHANGED <<queue, results, completed, running, stopped,
                            workers, created, alive, inflight, stale, timers,
                            log, started, runComplete, scriptLive>>]_vars
  /\ [][(lastOp' = "message" /\ ~runComplete /\ runComplete') =>
          /\ stopped' /\ ~running' /\ workers' = <<>> /\ alive' = {}
          /\ TasksInFlight' = TasksInFlight - 1]_vars

\* stop() was called on a pool that had stopped itself inside the handler of
\* its last completion
C12_Witness == hasWorker /\ lastOp = "stop" /\ runComplete /\ Total = MaxTasks

\* C13: the fault of a live unit records a Result with the id of the task in
\* flight on it and an error, and counts one completion.
C13_UnitFaultIsFailedCompletion ==
  [][lastOp' = "fault" =>
       \E w \in alive : \E t \in inflight[w] :
         /\ Len(results') > Len(results)
         /\ results'[Len(results) + 1] = ErrResult(t)
         /\ completed' > completed]_vars

\* C14: a dispatch failure has the effects of a failure message, the terminal
\* callback included: in the worker path, whichever step records the final
\* Result of a run with the queue drained schedules onComplete.
C14_DispatchFailureAsFailureMessage ==
  [][(hasWorker /\ Len(results) < Total /\ Len(results') = Total
        /\ queue' = <<>>) =>
       Len(timers') = Len(timers) + 1]_vars

\* C15: a worker-path run creates min(concurrency, max(1, T)) units, T being
\* the queue length at its start; every unit holds at most one task, only
\* live units of the pool hold one, and so the tasks in flight on the pool
\* never exceed the number of units created.
C15_UnitCountBoundsInFlight ==
  (hasWorker /\ started) =>
    /\ created = Min(concurrency, Max(1, Total))
    /\ alive \subseteq 1..created
    /\ \A u \in Units :
         /\ Cardinality(inflight[u]) <= 1
         /\ inflight[u] # {} => u \in alive
    /\ Outstanding(St, [i \in Units |-> i]) <= created

\* every unit of a pool of MaxConc units holds a task
C15_Witness ==
  /\ hasWorker /\ running /\ created = MaxConc
  /\ \A u \in Units : inflight[u] # {}

\* a is b with some of its first elements removed
IsSuffix(a, b) == \E k \in 0..Len(b) : a = SubSeq(b, k + 1, Len(b))

\* C16: while a run over at least one task is under way the queue only loses
\* elements from its head and no step, a change of the tasks input included,
\* puts back a task that a unit holds.
C16_QueueOnlyShrinks ==
  [][(running /\ running' /\ Total > 0) =>
       /\ IsSuffix(queue', queue)
       /\ \A u \in Units : \A t \in inflight'[u] : t \notin Range(queue')]_vars

\* C17: every recorded Result has exactly one of result and error, whatever
\* {id, result} or {id, error} message the unit posted.
C17_ResultIsTaggedUnion ==
  \A i \in DOMAIN results : results[i].result # results[i].error

\* C18: once the pool is stopped no object URL of a worker script remains
\* unreleased.
C18_ScriptReleasedOnStop == stopped => ~scriptLive

\* the invocations of onComplete in the log after a step were already in the
\* log before it: the step itself invokes none
InvokesNoOnComplete ==
  \A i \in DOMAIN log' :
    log'[i].op = "complete" => (i \in DOMAIN log /\ log[i] = log'[i])

\* C19 as stated: in either path no step but the firing of a deferred
\* callback invokes onComplete; the step that records the final Result does
\* not.
C19_OnCompleteNeverInline ==
  [][lastOp' # "timeout" => InvokesNoOnComplete]_vars

\* C19, amended: in the worker path no step but the firing of a deferred
\* callback invokes onComplete, and the callback fired was pending before
\* the step; the fallback invokes onComplete inside the start step.
C19_OnCompleteDeferredInWorkerPath ==
  /\ [][(hasWorker /\ lastOp' # "timeout") => InvokesNoOnComplete]_vars
  /\ [][lastOp' = "timeout" =>
          /\ timers # <<>>
          /\ log' = Append(log, CompleteCall(Head(timers).cur, Head(timers).res))]_vars
  /\ [](( ~hasWorker /\ lastOp = "start") =>
          \E i \in DOMAIN log : log[i].op = "complete")

\* the deferred onComplete of a worker-path run fired, after a step that
\* was not the one recording the final Result
C19_Witness ==
  /\ hasWorker /\ lastOp = "timeout" /\ log # <<>>
  /\ log[Len(log)].op = "complete" /\ log[Len(log)].cur
  /\ Len(log[Len(log)].res) = MaxTasks

\* the engine is not running, has no slot and no live unit, and no unit of
\* the pool holds a task
PoolStopped ==
  /\ ~running /\ workers = <<>> /\ alive = {}
  /\ \A u \in Units : inflight[u] = {}

C21_TaskConservation ==
  (hasWorker /\ running /\ ~stopped) =>
    /\ Len(queue) + Outstanding(St, [i \in Units |-> i]) + completed = Total
    /\ completed <= Total
    /\ \A u \in Units : \A t \in inflight[u] :
         /\ t \notin Range(queue)
         /\ \A v \in Units \ {u} : t \notin inflight[v]

====
